---- MODULE Spec2Model ----
(***************************************************************************)
(* Model of Bot.py: a Telegram bot relaying text and photo messages to    *)
(* the Gemini generateContent API.                                         *)
(*                                                                         *)
(* Part 1: Python values and the operations Bot.py applies to decoded     *)
(*         JSON; call_gemini_api and call_gemini_with_image as operators. *)
(* Part 2: handle_message and handle_image as state machines whose steps  *)
(*         are the resumptions of the coroutines at their awaits.         *)
(***************************************************************************)
EXTENDS Integers, Sequences, FiniteSets, TLC

(***************************************************************************)
(* Bounds of the model.                                                    *)
(***************************************************************************)
NumHandlers == 2   \* handler invocations that may be in flight together
MaxPhotos == 2     \* photo variants attached to one photo message
MaxArr == 2        \* elements of the `candidates` array of a response

(***************************************************************************)
(* Decoded JSON values (what response.json() returns), tagged by type.    *)
(* JSON booleans behave like numbers in every operation used here and are *)
(* left out.                                                               *)
(***************************************************************************)
JNull == [ty |-> "null"]
JNum(n) == [ty |-> "num", n |-> n]
JStr(s) == [ty |-> "str", s |-> s]
JArr(items) == [ty |-> "arr", items |-> items]
JObj(fields) == [ty |-> "obj", fields |-> fields]

\* marker of a key left out of an object under construction
Absent == [ty |-> "absent"]
\* the object with the keys of f whose value is not Absent
MkObj(f) == JObj([k \in {kk \in DOMAIN f : f[kk] # Absent} |-> f[k]])

(***************************************************************************)
(* Strings are TLA+ strings.  TLC cannot look inside a string, so the     *)
(* substring relation and the first character are tabulated for the       *)
(* strings that occur as JSON values in the model: apart from the pair    *)
(* listed, one of them contains a key of the code only when it equals it. *)
(***************************************************************************)
ProperSubstrings == {<<"parts", "counterparts">>}
StrContains(needle, hay) == hay = needle \/ <<needle, hay>> \in ProperSubstrings
FirstChar(s) ==
  CASE s = "ab" -> "a"
    [] s = "counterparts" -> "c"
    [] s = "candidates" -> "c"
    [] s = "content" -> "c"
    [] s = "finishReason" -> "f"
    [] s = "blockReason" -> "b"
    [] s = "promptFeedback" -> "p"
    [] s = "parts" -> "p"
    [] s = "text" -> "t"

(***************************************************************************)
(* Results of evaluating a Python expression: a raised exception (its     *)
(* class) or a value (a truth value b, a length n or a JSON value v).     *)
(***************************************************************************)
Raise(cls) == [exc |-> cls]
B(b) == [exc |-> "", b |-> b]
N(n) == [exc |-> "", n |-> n]
V(v) == [exc |-> "", v |-> v]

\* k in x
py_contains(k, x) ==
  CASE x.ty = "obj" -> B(k \in DOMAIN x.fields)
    [] x.ty = "arr" -> B(\E i \in 1..Len(x.items) : x.items[i] = JStr(k))
    [] x.ty = "str" -> B(StrContains(k, x.s))
    [] OTHER -> Raise("TypeError")

\* len(x)
py_len(x) ==
  CASE x.ty = "obj" -> N(Cardinality(DOMAIN x.fields))
    [] x.ty = "arr" -> N(Len(x.items))
    [] x.ty = "str" -> N(Len(x.s))
    [] OTHER -> Raise("TypeError")

\* x[k] for a string key k
py_getkey(x, k) ==
  CASE x.ty = "obj" -> IF k \in DOMAIN x.fields THEN V(x.fields[k]) ELSE Raise("KeyError")
    [] OTHER -> Raise("TypeError")

\* x[0]
py_get0(x) ==
  CASE x.ty = "arr" -> IF Len(x.items) > 0 THEN V(x.items[1]) ELSE Raise("IndexError")
    [] x.ty = "str" -> IF x.s # "" THEN V(JStr(FirstChar(x.s))) ELSE Raise("IndexError")
    [] x.ty = "obj" -> Raise("KeyError")
    [] OTHER -> Raise("TypeError")

\* x.get(k, d)
py_get(x, k, d) ==
  CASE x.ty = "obj" -> V(IF k \in DOMAIN x.fields THEN x.fields[k] ELSE d)
    [] OTHER -> Raise("AttributeError")

\* bool(x)
py_truth(x) ==
  CASE x.ty = "null" -> FALSE
    [] x.ty = "num" -> x.n # 0
    [] x.ty = "str" -> x.s # ""
    [] x.ty = "arr" -> Len(x.items) > 0
    [] x.ty = "obj" -> DOMAIN x.fields # {}

\* str(x), as an f-string formats x, for the scalars
py_str(x) ==
  CASE x.ty = "str" -> x.s
    [] x.ty = "num" -> ToString(x.n)
    [] x.ty = "null" -> "None"

\* str(e) of a caught exception; its wording depends on the library and
\* interpreter version, the model writes the exception's class for it
exc_str(cls) == "<" \o cls \o ">"

(***************************************************************************)
(* The outcome of the HTTP exchange of lines 37-39 / 80-82: requests.post *)
(* raises Timeout or ConnectionError, raise_for_status raises HTTPError,  *)
(* response.json() raises JSONDecodeError, or the body decodes to `body`. *)
(***************************************************************************)
TransportFailures == {"Timeout", "ConnectionError", "HTTPError", "JSONDecodeError"}
HttpFail(cls) == [kind |-> cls, body |-> JNull]
HttpOk(body) == [kind |-> "ok", body |-> body]

(***************************************************************************)
(* call_gemini_api, lines 41-52: the value returned or the exception      *)
(* raised inside the try block for a decoded body j.                       *)
(***************************************************************************)
\* line 41: "candidates" in j and len(j["candidates"]) > 0
text_has_candidates(j) ==
  LET a == py_contains("candidates", j) IN
  IF a.exc # "" THEN a ELSE IF ~a.b THEN B(FALSE) ELSE
  LET c == py_getkey(j, "candidates") IN
  IF c.exc # "" THEN c ELSE
  LET n == py_len(c.v) IN
  IF n.exc # "" THEN n ELSE B(n.n > 0)

\* line 43: "content" in c and "parts" in c["content"] and len(c["content"]["parts"]) > 0
text_has_parts(c) ==
  LET a == py_contains("content", c) IN
  IF a.exc # "" THEN a ELSE IF ~a.b THEN B(FALSE) ELSE
  LET ct == py_getkey(c, "content") IN
  IF ct.exc # "" THEN ct ELSE
  LET p == py_contains("parts", ct.v) IN
  IF p.exc # "" THEN p ELSE IF ~p.b THEN B(FALSE) ELSE
  LET ps == py_getkey(ct.v, "parts") IN
  IF ps.exc # "" THEN ps ELSE
  LET n == py_len(ps.v) IN
  IF n.exc # "" THEN n ELSE B(n.n > 0)

\* line 44: return c["content"]["parts"][0].get("text", "No text found in the response.")
text_first_part(c) ==
  LET ct == py_getkey(c, "content") IN
  IF ct.exc # "" THEN ct ELSE
  LET ps == py_getkey(ct.v, "parts") IN
  IF ps.exc # "" THEN ps ELSE
  LET p0 == py_get0(ps.v) IN
  IF p0.exc # "" THEN p0 ELSE
  py_get(p0.v, "text", JStr("No text found in the response."))

\* lines 45-46
text_stopped(c) ==
  LET fr == py_getkey(c, "finishReason") IN
  IF fr.exc # "" THEN fr ELSE
  V(JStr("Generation stopped: " \o py_str(fr.v) \o ". Try a different question."))

\* lines 42-48; text_candidate_no_finish is the variant that lacks the
\* finishReason branch of lines 45-46
text_candidate_no_finish(j) ==
  LET cs == py_getkey(j, "candidates") IN
  IF cs.exc # "" THEN cs ELSE
  LET c0 == py_get0(cs.v) IN
  IF c0.exc # "" THEN c0 ELSE
  LET hp == text_has_parts(c0.v) IN
  IF hp.exc # "" THEN hp ELSE
  IF hp.b THEN text_first_part(c0.v) ELSE
  V(JStr("Failed to process the response from the AI (unexpected structure)."))

text_candidate(j) ==
  LET cs == py_getkey(j, "candidates") IN
  IF cs.exc # "" THEN cs ELSE
  LET c0 == py_get0(cs.v) IN
  IF c0.exc # "" THEN c0 ELSE
  LET hp == text_has_parts(c0.v) IN
  IF hp.exc # "" THEN hp ELSE
  IF hp.b THEN text_first_part(c0.v) ELSE
  LET fr == py_contains("finishReason", c0.v) IN
  IF fr.exc # "" THEN fr ELSE
  IF fr.b THEN text_stopped(c0.v) ELSE
  V(JStr("Failed to process the response from the AI (unexpected structure)."))

\* line 49: "promptFeedback" in j and "blockReason" in j["promptFeedback"]
text_has_block(j) ==
  LET a == py_contains("promptFeedback", j) IN
  IF a.exc # "" THEN a ELSE IF ~a.b THEN B(FALSE) ELSE
  LET pf == py_getkey(j, "promptFeedback") IN
  IF pf.exc # "" THEN pf ELSE
  py_contains("blockReason", pf.v)

\* line 50
text_blocked(j) ==
  LET pf == py_getkey(j, "promptFeedback") IN
  IF pf.exc # "" THEN pf ELSE
  LET br == py_getkey(pf.v, "blockReason") IN
  IF br.exc # "" THEN br ELSE
  V(JStr("Request blocked: " \o py_str(br.v) \o "."))

\* lines 41-52
text_normalize(j) ==
  LET hc == text_has_candidates(j) IN
  IF hc.exc # "" THEN hc ELSE
  IF hc.b THEN text_candidate(j) ELSE
  LET hb == text_has_block(j) IN
  IF hb.exc # "" THEN hb ELSE
  IF hb.b THEN text_blocked(j) ELSE
  V(JStr("Failed to get a valid response from the AI."))

(***************************************************************************)
(* What a call returns to the handler: the value returned, the exception  *)
(* class caught on the way ("" for none) and whether logger.error ran.    *)
(***************************************************************************)
Returned(v) == [ret |-> v, caught |-> "", logged |-> FALSE]
Caught(cls, prefix) == [ret |-> JStr(prefix \o exc_str(cls)), caught |-> cls, logged |-> TRUE]

\* lines 35-56: the try block and its handler, for HTTP outcome o
call_gemini_api(o) ==
  IF o.kind # "ok" THEN Caught(o.kind, "Sorry, an error occurred: ")
  ELSE LET r == text_normalize(o.body) IN
       IF r.exc # "" THEN Caught(r.exc, "Sorry, an error occurred: ")
       ELSE Returned(r.v)

(***************************************************************************)
(* call_gemini_with_image, lines 84-87.                                    *)
(***************************************************************************)
\* line 84: "candidates" in j and j["candidates"]
image_has_candidates(j) ==
  LET a == py_contains("candidates", j) IN
  IF a.exc # "" THEN a ELSE IF ~a.b THEN B(FALSE) ELSE
  LET c == py_getkey(j, "candidates") IN
  IF c.exc # "" THEN c ELSE B(py_truth(c.v))

\* line 85: return j["candidates"][0]["content"]["parts"][0].get("text", "No response text found.")
\* image_first_part_one_default is the variant whose .get default is the
\* generic failure message of line 87
image_first_part_one_default(j) ==
  LET cs == py_getkey(j, "candidates") IN
  IF cs.exc # "" THEN cs ELSE
  LET c0 == py_get0(cs.v) IN
  IF c0.exc # "" THEN c0 ELSE
  LET ct == py_getkey(c0.v, "content") IN
  IF ct.exc # "" THEN ct ELSE
  LET ps == py_getkey(ct.v, "parts") IN
  IF ps.exc # "" THEN ps ELSE
  LET p0 == py_get0(ps.v) IN
  IF p0.exc # "" THEN p0 ELSE
  py_get(p0.v, "text", JStr("Couldn't get a valid response from the AI."))

image_first_part(j) ==
  LET cs == py_getkey(j, "candidates") IN
  IF cs.exc # "" THEN cs ELSE
  LET c0 == py_get0(cs.v) IN
  IF c0.exc # "" THEN c0 ELSE
  LET ct == py_getkey(c0.v, "content") IN
  IF ct.exc # "" THEN ct ELSE
  LET ps == py_getkey(ct.v, "parts") IN
  IF ps.exc # "" THEN ps ELSE
  LET p0 == py_get0(ps.v) IN
  IF p0.exc # "" THEN p0 ELSE
  py_get(p0.v, "text", JStr("No response text found."))

\* lines 84-87
image_normalize(j) ==
  LET hc == image_has_candidates(j) IN
  IF hc.exc # "" THEN hc ELSE
  IF hc.b THEN image_first_part(j) ELSE
  V(JStr("Couldn't get a valid response from the AI."))

\* lines 78-91
call_gemini_with_image(o) ==
  IF o.kind # "ok" THEN Caught(o.kind, "An error occurred: ")
  ELSE LET r == image_normalize(o.body) IN
       IF r.exc # "" THEN Caught(r.exc, "An error occurred: ")
       ELSE Returned(r.v)

(***************************************************************************)
(* base64.b64encode(image_bytes).decode('utf-8'), line 60.                 *)
(***************************************************************************)
B64Alphabet ==
  << "A","B","C","D","E","F","G","H","I","J","K","L","M","N","O","P",
     "Q","R","S","T","U","V","W","X","Y","Z","a","b","c","d","e","f",
     "g","h","i","j","k","l","m","n","o","p","q","r","s","t","u","v",
     "w","x","y","z","0","1","2","3","4","5","6","7","8","9","+","/" >>
B64Char(n) == B64Alphabet[n + 1]

RECURSIVE b64encode(_)
b64encode(bs) ==
  IF Len(bs) = 0 THEN ""
  ELSE IF Len(bs) = 1 THEN
    LET n == bs[1] * 65536 IN
    B64Char(n \div 262144) \o B64Char((n \div 4096) % 64) \o "=="
  ELSE IF Len(bs) = 2 THEN
    LET n == bs[1] * 65536 + bs[2] * 256 IN
    B64Char(n \div 262144) \o B64Char((n \div 4096) % 64)
      \o B64Char((n \div 64) % 64) \o "="
  ELSE
    LET n == bs[1] * 65536 + bs[2] * 256 + bs[3] IN
    B64Char(n \div 262144) \o B64Char((n \div 4096) % 64)
      \o B64Char((n \div 64) % 64) \o B64Char(n % 64)
      \o b64encode(SubSeq(bs, 4, Len(bs)))

(***************************************************************************)
(* The request payloads, lines 29-33 and 62-74.                            *)
(***************************************************************************)
text_request(prompt) ==
  JObj("contents" :> JArr(<< JObj("parts" :> JArr(<< JObj("text" :> JStr(prompt)) >>)) >>))

image_request(prompt, image_bytes) ==
  JObj("contents" :> JArr(<< JObj("parts" :> JArr(<<
      JObj("text" :> JStr(prompt)),
      JObj("inlineData" :> JObj("mimeType" :> JStr("image/jpeg")
                                @@ "data" :> JStr(b64encode(image_bytes)))) >>)) >>))

(***************************************************************************)
(* The environment: chats, prompts, photo files and the inference API.    *)
(***************************************************************************)
Handlers == 1..NumHandlers
Chats == {101, 102}
Prompts == {"capital?", "quantum?"}
PhotoIds == 1..(MaxPhotos + 1)
\* the content of photo file v: v bytes, so that every padding of base64 occurs
FileBytes(v) == [i \in 1..v |-> (255 - 39 * (i - 1)) % 256]

\* the sequences of at most n distinct elements of S
RECURSIVE SeqsNoRepeat(_, _)
SeqsNoRepeat(S, n) ==
  IF n = 0 THEN {<<>>}
  ELSE LET shorter == SeqsNoRepeat(S, n - 1) IN
       shorter \cup UNION {{Append(q, x) : x \in S \ {q[i] : i \in 1..Len(q)}} :
                            q \in {r \in shorter : Len(r) = n - 1}}

\* update.message of an inbound event; photos lists the variants of a photo
\* message in the order the platform delivers them.  A photo event without
\* variants is what the defensive check of line 129 is written for.
TextEvents == [kind : {"text"}, chat : Chats, text : Prompts, photos : {<<>>}]
PhotoEvents == [kind : {"photo"}, chat : Chats, text : {""}, photos : SeqsNoRepeat(PhotoIds, MaxPhotos)]
Events == TextEvents \cup PhotoEvents
NoEvent == [kind |-> "none", chat |-> 0, text |-> "", photos |-> <<>>]

\* the parts of a request payload
RequestParts(req) == req.fields["contents"].items[1].fields["parts"].items
\* the text the inference API generates for a request: it names the prompt
\* and, when present, the image of the request it answers
AnswerFor(req) ==
  LET parts == RequestParts(req) IN
  IF Len(parts) = 1 THEN "re:" \o parts[1].fields["text"].s
  ELSE "img:" \o parts[2].fields["inlineData"].fields["data"].s

(***************************************************************************)
(* The decoded bodies of a 2xx response: well-formed ones, and ones with  *)
(* keys missing or values of the wrong type at every level the code reads. *)
(***************************************************************************)
TextVals(ans) == {JStr(ans), JStr(""), JNum(5), JNull}
Part0Vals(ans) ==
  {MkObj("text" :> t) : t \in TextVals(ans) \cup {Absent}}
    \cup {JNum(7), JStr("text"), JNull, JArr(<<>>)}
PartsVals(ans) ==
  {JArr(<<p>>) : p \in Part0Vals(ans)}
    \cup {JArr(<<>>), JObj(<<>>), JObj("k" :> JNull), JStr(""), JStr("ab"), JNull, JNum(0)}
ContentVals(ans) ==
  {MkObj("parts" :> p) : p \in PartsVals(ans) \cup {Absent}}
    \cup {JArr(<<>>), JArr(<<JStr("parts")>>), JStr("parts"), JStr("counterparts"),
          JStr("ab"), JNull, JNum(1)}
FinishVals == {JStr("SAFETY"), JNum(2), JNull}
CandVals(ans) ==
  {MkObj("content" :> c @@ "finishReason" :> f) :
      c \in ContentVals(ans) \cup {Absent}, f \in FinishVals \cup {Absent}}
    \cup {JNum(3), JNull, JStr("finishReason"), JStr("content"), JStr("ab"),
          JArr(<<>>), JArr(<<JStr("content")>>), JArr(<<JStr("finishReason")>>)}
\* a further candidate, behind the first
OtherCandidate == JObj("finishReason" :> JStr("STOP"))
CandidatesVals(ans) ==
  {JArr(<<c>> \o [i \in 1..n |-> OtherCandidate]) : c \in CandVals(ans), n \in 0..(MaxArr - 1)}
    \cup {JArr(<<>>), JObj(<<>>), JObj("k" :> JNull), JStr(""), JStr("ab"),
          JNull, JNum(0), JNum(3)}
BlockVals == {JStr("OTHER"), JNum(4), JNull}
FeedbackVals ==
  {MkObj("blockReason" :> b) : b \in BlockVals \cup {Absent}}
    \cup {JNull, JStr("blockReason"), JStr("ab"), JArr(<<>>),
          JArr(<<JStr("blockReason")>>), JNum(1)}
Bodies(ans) ==
  {MkObj("candidates" :> c @@ "promptFeedback" :> p) :
      c \in CandidatesVals(ans) \cup {Absent}, p \in FeedbackVals \cup {Absent}}
    \cup {JArr(<<>>), JArr(<<JStr("candidates")>>), JArr(<<JStr("promptFeedback")>>),
          JStr("candidates"), JStr("promptFeedback"), JStr("ab"), JNum(0), JNull}

\* every outcome of the HTTP exchange for a request
Outcomes(req) ==
  {HttpFail(cls) : cls \in TransportFailures} \cup {HttpOk(b) : b \in Bodies(AnswerFor(req))}

\* a few of them: a timeout, a generated text, a stopped generation
ConcBodies(ans) ==
  { JObj("candidates" :> JArr(<<JObj("content" :> JObj("parts" :> JArr(<<JObj("text" :> JStr(ans))>>)))>>)),
    JObj("candidates" :> JArr(<<JObj("finishReason" :> JStr("SAFETY"))>>)) }
ConcOutcomes(req) ==
  {HttpFail("Timeout")} \cup {HttpOk(b) : b \in ConcBodies(AnswerFor(req))}

OutcomesOf(req, all) == IF all THEN Outcomes(req) ELSE ConcOutcomes(req)

(***************************************************************************)
(* State.  Every variable is a function of the handler invocation; the    *)
(* bot keeps no state of its own between or across invocations.           *)
(***************************************************************************)
VARIABLES
  ev,           \* the update the invocation handles (NoEvent: none)
  pc,           \* the await the coroutine is suspended at
  photo_file,   \* handle_image: the photo variant get_file returned (0: none)
  photo_bytes,  \* handle_image: the downloaded bytes
  posted,       \* the payloads handed to requests.post, in order
  response,     \* the outcome of the HTTP exchange
  ai_response,  \* the value the call returned
  trace,        \* the external calls made so far, in order, with their success
  sends,        \* the reply_text calls made so far: chat, text, success
  log           \* the records written through logger

vars == <<ev, pc, photo_file, photo_bytes, posted, response, ai_response, trace, sends, log>>

NoResponse == [kind |-> "none", body |-> JNull]
Call(op, ok) == [op |-> op, ok |-> ok]

Init ==
  /\ ev = [h \in Handlers |-> NoEvent]
  /\ pc = [h \in Handlers |-> "idle"]
  /\ photo_file = [h \in Handlers |-> 0]
  /\ photo_bytes = [h \in Handlers |-> <<>>]
  /\ posted = [h \in Handlers |-> <<>>]
  /\ response = [h \in Handlers |-> NoResponse]
  /\ ai_response = [h \in Handlers |-> JNull]
  /\ trace = [h \in Handlers |-> <<>>]
  /\ sends = [h \in Handlers |-> <<>>]
  /\ log = [h \in Handlers |-> <<>>]

(***************************************************************************)
(* Control flow of the handlers: the await reached when the await `at`    *)
(* completes, successfully (ok) or by raising.  "raised": the exception   *)
(* leaves the handler.                                                     *)
(***************************************************************************)
\* lines 110-122; the variants: _propagate has no try around the reply of
\* line 119, _retry repeats the inference call after a transport failure
handle_message_next_propagate(at, ok) ==
  CASE at = "typing" -> IF ok THEN "infer" ELSE "raised"
    [] at = "infer" -> "reply"
    [] at = "reply" -> IF ok THEN "done" ELSE "raised"
    [] at = "fallback" -> IF ok THEN "done" ELSE "raised"

handle_message_next_retry(at, ok) ==
  CASE at = "typing" -> IF ok THEN "infer" ELSE "raised"
    [] at = "infer" -> IF ok THEN "reply" ELSE "infer"
    [] at = "reply" -> IF ok THEN "done" ELSE "fallback"
    [] at = "fallback" -> IF ok THEN "done" ELSE "raised"

handle_message_next(at, ok) ==
  CASE at = "typing" -> IF ok THEN "infer" ELSE "raised"
    [] at = "infer" -> "reply"
    [] at = "reply" -> IF ok THEN "done" ELSE "fallback"
    [] at = "fallback" -> IF ok THEN "done" ELSE "raised"

\* lines 133-140; the variant _typing_first sends the typing indicator before
\* the download
handle_image_next_typing_first(at, ok) ==
  CASE at = "get_file" -> IF ok THEN "typing" ELSE "raised"
    [] at = "typing" -> IF ok THEN "download" ELSE "raised"
    [] at = "download" -> IF ok THEN "infer" ELSE "raised"
    [] at = "infer" -> "reply"
    [] at = "reply" -> IF ok THEN "done" ELSE "raised"
    [] at = "reply_none" -> IF ok THEN "done" ELSE "raised"

handle_image_next(at, ok) ==
  CASE at = "get_file" -> IF ok THEN "download" ELSE "raised"
    [] at = "download" -> IF ok THEN "typing" ELSE "raised"
    [] at = "typing" -> IF ok THEN "infer" ELSE "raised"
    [] at = "infer" -> "reply"
    [] at = "reply" -> IF ok THEN "done" ELSE "raised"
    [] at = "reply_none" -> IF ok THEN "done" ELSE "raised"

\* the first await of a handler: lines 111-115 and 126-133
handle_first(e) ==
  IF e.kind = "text" THEN "typing"
  ELSE IF e.photos = <<>> THEN "reply_none" ELSE "get_file"

next_step(e, at, ok) ==
  IF e.kind = "text" THEN handle_message_next(at, ok) ELSE handle_image_next(at, ok)

\* line 133: photos[-1]; the variant _first takes photos[0]
select_photo_first(photos) == photos[1]
select_photo(photos) == photos[Len(photos)]

\* line 111: user_message = update.message.text, a local of the invocation;
\* the variant _shared reads one module-level slot all invocations write
user_message_shared(h) == ev[CHOOSE g \in Handlers : ev[g].kind # "none"].text
user_message(h) == ev[h].text

\* lines 119, 122, 130, 140: update.message.reply_text replies in the chat of
\* the invocation's own update
reply_chat(h) == ev[h].chat

\* the payload call_gemini_api / call_gemini_with_image builds, lines 29-33,
\* 62-74 and 136
build_request(h, bytes) ==
  IF ev[h].kind = "text" THEN text_request(user_message(h))
  ELSE image_request("What is in this image?", bytes)

\* lines 116 and 138
call_result(h, o) ==
  IF ev[h].kind = "text" THEN call_gemini_api(o) ELSE call_gemini_with_image(o)

\* the log record of a caught exception, lines 55 and 90
call_log(h) ==
  IF ev[h].kind = "text" THEN "error: Error during request to Gemini API"
  ELSE "error: Error processing image"

(***************************************************************************)
(* Moving handler h to the await `to` after the external call `done`:     *)
(* reaching the inference call hands the payload to requests.post in the  *)
(* executor (lines 36-37, 79-80).                                          *)
(***************************************************************************)
Goto(h, to, done, bytes) ==
  /\ pc' = [pc EXCEPT ![h] = to]
  /\ IF to = "infer"
     THEN /\ posted' = [posted EXCEPT ![h] = Append(@, build_request(h, bytes))]
          /\ trace' = [trace EXCEPT ![h] = @ \o <<done, Call("post", TRUE)>>]
     ELSE /\ posted' = posted
          /\ trace' = [trace EXCEPT ![h] = Append(@, done)]

(***************************************************************************)
(* Actions.                                                                *)
(***************************************************************************)
\* the application invokes the handler for an inbound update; the handler
\* runs to its first await (lines 111-115, 126-133)
Dispatch(h, E) ==
  /\ pc[h] = "idle"
  /\ \E e \in E :
       /\ ev' = [ev EXCEPT ![h] = e]
       /\ pc' = [pc EXCEPT ![h] = handle_first(e)]
       /\ log' = [log EXCEPT ![h] = IF e.kind = "text" THEN <<"info: Text from">> ELSE <<>>]
  /\ UNCHANGED <<photo_file, photo_bytes, posted, response, ai_response, trace, sends>>

\* line 133: await photos[-1].get_file()
GetFile(h) ==
  /\ pc[h] = "get_file"
  /\ \E ok \in BOOLEAN :
       /\ photo_file' = [photo_file EXCEPT ![h] = IF ok THEN select_photo(ev[h].photos) ELSE @]
       /\ Goto(h, next_step(ev[h], "get_file", ok), Call("get_file", ok), photo_bytes[h])
  /\ UNCHANGED <<ev, photo_bytes, response, ai_response, sends, log>>

\* line 134: await photo_file.download_as_bytearray()
Download(h) ==
  /\ pc[h] = "download"
  /\ \E ok \in BOOLEAN :
       LET bytes == IF ok THEN FileBytes(photo_file[h]) ELSE photo_bytes[h] IN
       /\ photo_bytes' = [photo_bytes EXCEPT ![h] = bytes]
       /\ Goto(h, next_step(ev[h], "download", ok), Call("download", ok), bytes)
  /\ UNCHANGED <<ev, photo_file, response, ai_response, sends, log>>

\* lines 115 and 137: await context.bot.send_chat_action(...)
Typing(h) ==
  /\ pc[h] = "typing"
  /\ \E ok \in BOOLEAN :
       Goto(h, next_step(ev[h], "typing", ok), Call("typing", ok), photo_bytes[h])
  /\ UNCHANGED <<ev, photo_file, photo_bytes, response, ai_response, sends, log>>

\* lines 37-56 and 80-91: the executor finishes the HTTP exchange and the
\* call returns to the handler
Http(h, all) ==
  /\ pc[h] = "infer"
  /\ \E o \in OutcomesOf(posted[h][Len(posted[h])], all) :
       LET r == call_result(h, o) IN
       /\ response' = [response EXCEPT ![h] = o]
       /\ ai_response' = [ai_response EXCEPT ![h] = r.ret]
       /\ log' = [log EXCEPT ![h] = IF r.logged THEN Append(@, call_log(h)) ELSE @]
       /\ Goto(h, next_step(ev[h], "infer", o.kind \notin TransportFailures),
               Call("post_return", o.kind \notin TransportFailures), photo_bytes[h])
  /\ UNCHANGED <<ev, photo_file, photo_bytes, sends>>

\* lines 118-121 and 140: await update.message.reply_text(ai_response)
Reply(h) ==
  /\ pc[h] = "reply"
  /\ \E ok \in BOOLEAN :
       /\ sends' = [sends EXCEPT ![h] = Append(@, [chat |-> reply_chat(h), text |-> ai_response[h], ok |-> ok])]
       /\ log' = [log EXCEPT ![h] = IF ~ok /\ next_step(ev[h], "reply", ok) = "fallback"
                                     THEN Append(@, "error: Failed to send reply message") ELSE @]
       /\ Goto(h, next_step(ev[h], "reply", ok), Call("reply_text", ok), photo_bytes[h])
  /\ UNCHANGED <<ev, photo_file, photo_bytes, response, ai_response>>

\* line 122: await update.message.reply_text("An error occurred while sending the reply.")
Fallback(h) ==
  /\ pc[h] = "fallback"
  /\ \E ok \in BOOLEAN :
       /\ sends' = [sends EXCEPT ![h] = Append(@, [chat |-> reply_chat(h),
                      text |-> JStr("An error occurred while sending the reply."), ok |-> ok])]
       /\ Goto(h, next_step(ev[h], "fallback", ok), Call("reply_text", ok), photo_bytes[h])
  /\ UNCHANGED <<ev, photo_file, photo_bytes, response, ai_response, log>>

\* lines 129-131: await update.message.reply_text("No image found."); return
ReplyNoImage(h) ==
  /\ pc[h] = "reply_none"
  /\ \E ok \in BOOLEAN :
       /\ sends' = [sends EXCEPT ![h] = Append(@, [chat |-> reply_chat(h),
                      text |-> JStr("No image found."), ok |-> ok])]
       /\ Goto(h, next_step(ev[h], "reply_none", ok), Call("reply_text", ok), photo_bytes[h])
  /\ UNCHANGED <<ev, photo_file, photo_bytes, response, ai_response, log>>

\* the invocation is over (it returned or raised) and its frame is dropped
Finish(h) ==
  /\ pc[h] \in {"done", "raised"}
  /\ ev' = [ev EXCEPT ![h] = NoEvent]
  /\ pc' = [pc EXCEPT ![h] = "idle"]
  /\ photo_file' = [photo_file EXCEPT ![h] = 0]
  /\ photo_bytes' = [photo_bytes EXCEPT ![h] = <<>>]
  /\ posted' = [posted EXCEPT ![h] = <<>>]
  /\ response' = [response EXCEPT ![h] = NoResponse]
  /\ ai_response' = [ai_response EXCEPT ![h] = JNull]
  /\ trace' = [trace EXCEPT ![h] = <<>>]
  /\ sends' = [sends EXCEPT ![h] = <<>>]
  /\ log' = [log EXCEPT ![h] = <<>>]

(***************************************************************************)
(* Spec: one invocation at a time, every event and every response body.   *)
(***************************************************************************)
Next ==
  \/ Dispatch(1, Events)
  \/ GetFile(1)
  \/ Download(1)
  \/ Typing(1)
  \/ Http(1, TRUE)
  \/ Reply(1)
  \/ Fallback(1)
  \/ ReplyNoImage(1)
  \/ Finish(1)

Spec == Init /\ [][Next]_vars

(***************************************************************************)
(* SpecConc: NumHandlers invocations in flight, interleaved at their      *)
(* awaits, over a few events and response bodies.                          *)
(***************************************************************************)
ConcEvents ==
  {e \in TextEvents : (e.chat = 101) = (e.text = "capital?")}
    \cup {e \in PhotoEvents : e.chat = 101 /\ e.photos = <<>>}
    \cup {e \in PhotoEvents : Len(e.photos) = 1 /\ (e.chat = 101) = (e.photos[1] = 1) /\ e.photos[1] <= 2}
NextConc ==
  \/ \E h \in Handlers : Dispatch(h, ConcEvents)
  \/ \E h \in Handlers : GetFile(h)
  \/ \E h \in Handlers : Download(h)
  \/ \E h \in Handlers : Typing(h)
  \/ \E h \in Handlers : Http(h, FALSE)
  \/ \E h \in Handlers : Reply(h)
  \/ \E h \in Handlers : Fallback(h)
  \/ \E h \in Handlers : ReplyNoImage(h)
  \/ \E h \in Handlers : Finish(h)

SpecConc == Init /\ [][NextConc]_vars

TypeOK ==
  /\ \A h \in Handlers : pc[h] \in {"idle", "typing", "get_file", "download", "infer",
                                     "reply", "fallback", "reply_none", "done", "raised"}
  /\ \A h \in Handlers : ev[h] \in Events \cup {NoEvent}

(***************************************************************************)
(* Properties.                                                             *)
(***************************************************************************)
Range(q) == {q[i] : i \in 1..Len(q)}
Ops(h) == [i \in 1..Len(trace[h]) |-> trace[h][i].op]
IsPrefix(p, q) == Len(p) <= Len(q) /\ \A i \in 1..Len(p) : p[i] = q[i]

\* the call of a text / photo event has returned for a decoded 2xx body
TextCallOk(h) == ev[h].kind = "text" /\ response[h].kind = "ok"
ImageCallOk(h) == ev[h].kind = "photo" /\ response[h].kind = "ok"

\* body j is an object whose `candidates` is a non-empty array whose first
\* element is an object
HasFirstCandidate(j) ==
  /\ j.ty = "obj" /\ "candidates" \in DOMAIN j.fields
  /\ j.fields["candidates"].ty = "arr" /\ Len(j.fields["candidates"].items) > 0
  /\ j.fields["candidates"].items[1].ty = "obj"
FirstCandidate(j) == j.fields["candidates"].items[1].fields

\* candidate c (its fields): content absent / parts absent / parts empty
ContentAbsent(c) == "content" \notin DOMAIN c
PartsAbsent(c) ==
  /\ "content" \in DOMAIN c /\ c["content"].ty = "obj"
  /\ "parts" \notin DOMAIN c["content"].fields
HasPartsArray(c) ==
  /\ "content" \in DOMAIN c /\ c["content"].ty = "obj"
  /\ "parts" \in DOMAIN c["content"].fields
  /\ c["content"].fields["parts"].ty = "arr"
PartsOf(c) == c["content"].fields["parts"].items
PartsEmpty(c) == HasPartsArray(c) /\ Len(PartsOf(c)) = 0
\* parts[0] is an object without / with a `text` key
Part0NoText(c) ==
  /\ HasPartsArray(c) /\ Len(PartsOf(c)) > 0
  /\ PartsOf(c)[1].ty = "obj" /\ "text" \notin DOMAIN PartsOf(c)[1].fields
Part0Text(c) ==
  /\ HasPartsArray(c) /\ Len(PartsOf(c)) > 0
  /\ PartsOf(c)[1].ty = "obj" /\ "text" \in DOMAIN PartsOf(c)[1].fields

StoppedMessage(c) ==
  JStr("Generation stopped: " \o py_str(c["finishReason"]) \o ". Try a different question.")

\* C1 as stated: in the text flow, a first candidate without text at
\* content.parts[0].text (content absent, parts absent, parts empty, or
\* parts[0] without a text key) that carries finishReason yields the
\* generation-stopped message with that finishReason.
C1_StoppedWheneverNoText ==
  \A h \in Handlers :
    (/\ TextCallOk(h) /\ HasFirstCandidate(response[h].body)
     /\ LET c == FirstCandidate(response[h].body) IN
        /\ "finishReason" \in DOMAIN c
        /\ ContentAbsent(c) \/ PartsAbsent(c) \/ PartsEmpty(c) \/ Part0NoText(c))
    => ai_response[h] = StoppedMessage(FirstCandidate(response[h].body))

\* C1 amended: the generation-stopped message is returned when content is
\* absent, parts is absent or parts is empty; when parts[0] is an object
\* without a text key the result is 'No text found in the response.',
\* whether or not the candidate carries finishReason.
C1_StoppedWhenNoParts ==
  \A h \in Handlers :
    (TextCallOk(h) /\ HasFirstCandidate(response[h].body)) =>
      LET c == FirstCandidate(response[h].body) IN
      /\ ("finishReason" \in DOMAIN c /\ (ContentAbsent(c) \/ PartsAbsent(c) \/ PartsEmpty(c)))
           => ai_response[h] = StoppedMessage(c)
      /\ Part0NoText(c) => ai_response[h] = JStr("No text found in the response.")

C1_Witness ==
  \E h \in Handlers :
    /\ TextCallOk(h) /\ HasFirstCandidate(response[h].body)
    /\ "finishReason" \in DOMAIN FirstCandidate(response[h].body)
    /\ PartsEmpty(FirstCandidate(response[h].body))
    /\ ai_response[h] = JStr("Generation stopped: SAFETY. Try a different question.")
    /\ pc[h] = "reply"

\* C2: in the text flow, for every decoded body of a successful response
\* the call returns a string (and nothing is raised out of the call: the
\* handler goes on to the reply).
C2_ReturnsString ==
  \A h \in Handlers :
    TextCallOk(h) => ai_response[h].ty = "str" /\ pc[h] \in {"reply", "fallback", "done", "raised"}

ExceptionClasses ==
  TransportFailures \cup {"TypeError", "KeyError", "IndexError", "AttributeError"}
TransportMessages == {JStr("Sorry, an error occurred: " \o exc_str(cls)) : cls \in ExceptionClasses}

\* C3: in the text flow, when the HTTP exchange succeeds the result is
\* never the transport-error message 'Sorry, an error occurred: ...'; that
\* message is produced only on a transport failure.
C3_TransportMessageOnlyOnTransportFailure ==
  \A h \in Handlers :
    (ev[h].kind = "text" /\ ai_response[h] \in TransportMessages)
      => response[h].kind \in TransportFailures

\* C4 as stated: in the image flow, for every decoded body of a successful
\* response the result is the text of the first candidate or the generic
\* failure message, nothing else.
C4_TextOrGenericFailure ==
  \A h \in Handlers :
    ImageCallOk(h) =>
      \/ ai_response[h] = JStr("Couldn't get a valid response from the AI.")
      \/ /\ HasFirstCandidate(response[h].body)
         /\ Part0Text(FirstCandidate(response[h].body))
         /\ ai_response[h] = PartsOf(FirstCandidate(response[h].body))[1].fields["text"]

ImageErrorMessages == {JStr("An error occurred: " \o exc_str(cls)) : cls \in ExceptionClasses}
\* `"candidates" in body` is false, or body["candidates"] is falsy
NoCandidates(j) ==
  \/ j.ty = "obj" /\ "candidates" \notin DOMAIN j.fields
  \/ j.ty = "obj" /\ "candidates" \in DOMAIN j.fields /\ ~py_truth(j.fields["candidates"])
  \/ j.ty = "arr" /\ JStr("candidates") \notin Range(j.items)
  \/ j.ty = "str" /\ ~StrContains("candidates", j.s)

\* C4 amended: in the image flow, for a decoded body of a successful
\* response the result is the value at candidates[0].content.parts[0].text
\* when that path exists; 'No response text found.' when parts[0] is an
\* object without a text key; the generic failure message when the body has
\* no `candidates` or a falsy one; and in every other case (the path to
\* parts[0] is missing or wrongly typed) the logged exception message
\* 'An error occurred: ...'.
C4_ImageOutcomes ==
  \A h \in Handlers :
    ImageCallOk(h) =>
      LET j == response[h].body IN
      IF NoCandidates(j)
      THEN ai_response[h] = JStr("Couldn't get a valid response from the AI.")
      ELSE IF HasFirstCandidate(j) /\ Part0Text(FirstCandidate(j))
      THEN ai_response[h] = PartsOf(FirstCandidate(j))[1].fields["text"]
      ELSE IF HasFirstCandidate(j) /\ Part0NoText(FirstCandidate(j))
      THEN ai_response[h] = JStr("No response text found.")
      ELSE /\ ai_response[h] \in ImageErrorMessages
           /\ "error: Error processing image" \in Range(log[h])

C4_Witness ==
  \E h \in Handlers :
    /\ ImageCallOk(h) /\ HasFirstCandidate(response[h].body)
    /\ Part0NoText(FirstCandidate(response[h].body))
    /\ "finishReason" \in DOMAIN FirstCandidate(response[h].body)
    /\ ai_response[h] = JStr("No response text found.")

FallbackText == JStr("An error occurred while sending the reply.")

\* C5: in handle_message, when the reply carrying the inference result
\* fails, the failure is logged, the fallback string is then sent to the
\* same chat, and the failure of the first send does not leave the handler.
C5_FallbackAfterFailedReply ==
  \A h \in Handlers :
    (ev[h].kind = "text" /\ Len(sends[h]) >= 1 /\ ~sends[h][1].ok) =>
      /\ "error: Failed to send reply message" \in Range(log[h])
      /\ sends[h][1].text = ai_response[h]
      /\ \/ pc[h] = "fallback" /\ Len(sends[h]) = 1
         \/ /\ Len(sends[h]) = 2
            /\ sends[h][2].text = FallbackText
            /\ sends[h][2].chat = ev[h].chat /\ sends[h][1].chat = ev[h].chat
            /\ pc[h] = (IF sends[h][2].ok THEN "done" ELSE "raised")

C5_Witness ==
  \E h \in Handlers :
    /\ ev[h].kind = "text" /\ pc[h] = "done"
    /\ Len(sends[h]) = 2 /\ ~sends[h][1].ok /\ sends[h][2].ok
    /\ sends[h][2].text = FallbackText

\* C6: no exception leaves a handler, and an invocation in which an
\* external call failed ends with a logged record and a delivered reply.
C6_NothingEscapes ==
  \A h \in Handlers :
    /\ pc[h] # "raised"
    /\ (pc[h] = "done" /\ \E i \in 1..Len(trace[h]) : ~trace[h][i].ok) =>
         /\ \E i \in 1..Len(log[h]) : log[h][i] # "info: Text from"
         /\ \E i \in 1..Len(sends[h]) : sends[h][i].ok

\* C7: handle_image with no photo variants replies 'No image found.' and
\* makes no other call (no download, no typing indicator, no inference
\* call); with variants, the last one is fetched, downloaded and posted.
C7_PhotoSelection ==
  \A h \in Handlers :
    ev[h].kind = "photo" =>
      IF ev[h].photos = <<>>
      THEN /\ Range(Ops(h)) \subseteq {"reply_text"}
           /\ posted[h] = <<>> /\ photo_file[h] = 0 /\ photo_bytes[h] = <<>>
           /\ Len(sends[h]) <= 1
           /\ \A i \in 1..Len(sends[h]) : sends[h][i].text = JStr("No image found.")
           /\ pc[h] \in {"done", "raised"} => Len(sends[h]) = 1
      ELSE LET last == ev[h].photos[Len(ev[h].photos)] IN
           /\ photo_file[h] \in {0, last}
           /\ photo_bytes[h] \in {<<>>, FileBytes(last)}
           /\ \A i \in 1..Len(trace[h]) :
                (trace[h][i].op = "get_file" /\ trace[h][i].ok) => photo_file[h] = last
           /\ \A i \in 1..Len(posted[h]) :
                posted[h][i] = image_request("What is in this image?", FileBytes(last))
           /\ \A i \in 1..Len(sends[h]) : sends[h][i].text # JStr("No image found.")

C7_Witness ==
  \E h \in Handlers :
    /\ ev[h].kind = "photo" /\ Len(ev[h].photos) >= 2
    /\ Len(posted[h]) = 1 /\ pc[h] = "done"
    /\ photo_file[h] = ev[h].photos[Len(ev[h].photos)]

\* the inference step of the invocation has been reached
ReachedInference(h) == "post" \in Range(Ops(h))

\* C8: an event that reaches the inference step issues exactly one POST,
\* whatever the outcome of the call and of the replies that follow.
C8_SinglePost ==
  \A h \in Handlers :
    /\ Len(posted[h]) <= 1
    /\ Cardinality({i \in 1..Len(trace[h]) : trace[h][i].op = "post"}) = Len(posted[h])
    /\ (pc[h] = "infer" \/ response[h].kind # "none") <=> ReachedInference(h)
    /\ ReachedInference(h) => Len(posted[h]) = 1

C8_Witness ==
  \E h \in Handlers :
    /\ response[h].kind = "Timeout" /\ Len(posted[h]) = 1
    /\ Len(sends[h]) = 2 /\ ~sends[h][1].ok /\ pc[h] \in {"done", "raised"}

\* the external calls of one invocation, in program order
CallOrder(e) ==
  IF e.kind = "text" THEN <<"typing", "post", "post_return", "reply_text", "reply_text">>
  ELSE IF e.photos = <<>> THEN <<"reply_text">>
  ELSE <<"get_file", "download", "typing", "post", "post_return", "reply_text">>

\* C9: the calls of one invocation happen in program order (download,
\* typing indicator, inference call, reply), each after the one before it
\* has completed, and a reply carrying an inference result is sent only
\* after the inference call has returned.
C9_StrictOrder ==
  \A h \in Handlers :
    ev[h].kind # "none" =>
      /\ IsPrefix(Ops(h), CallOrder(ev[h]))
      /\ \A i \in 1..Len(trace[h]) :
           (i < Len(trace[h]) /\ trace[h][i].op \in {"get_file", "download", "typing"})
             => trace[h][i].ok
      /\ (Len(sends[h]) >= 1 /\ handle_first(ev[h]) # "reply_none") =>
           /\ response[h].kind # "none"
           /\ sends[h][1].text = ai_response[h]
           /\ \E i \in 1..Len(trace[h]) :
                /\ trace[h][i].op = "post_return"
                /\ \A k \in 1..Len(trace[h]) : trace[h][k].op = "reply_text" => i < k

C9_Witness ==
  \E h \in Handlers :
    /\ ev[h].kind = "photo" /\ pc[h] = "done"
    /\ Ops(h) = <<"get_file", "download", "typing", "post", "post_return", "reply_text">>

\* what the inference API answers to the request built from event e alone
OwnAnswer(e) ==
  IF e.kind = "text" THEN "re:" \o e.text
  ELSE "img:" \o b64encode(FileBytes(e.photos[Len(e.photos)]))
\* the replies event e can produce from its own prompt or image and from a
\* response to its own request
OwnReplies(e) ==
  (IF e.kind = "photo" /\ e.photos = <<>> THEN {} ELSE {JStr(OwnAnswer(e))}) \cup
  { FallbackText, JStr("No image found."),
    JStr("Generation stopped: SAFETY. Try a different question."),
    JStr("Sorry, an error occurred: <Timeout>"),
    JStr("An error occurred: <Timeout>"), JStr("An error occurred: <KeyError>") }

\* C10: with several invocations interleaved at their awaits, every reply
\* goes to the chat of the invocation's own event, every request carries
\* that event's own prompt or image, and every reply is derived from the
\* response to that request.
C10_Isolation ==
  \A h \in Handlers :
    /\ \A i \in 1..Len(sends[h]) :
         /\ sends[h][i].chat = ev[h].chat
         /\ sends[h][i].text \in OwnReplies(ev[h])
    /\ \A i \in 1..Len(posted[h]) : AnswerFor(posted[h][i]) = OwnAnswer(ev[h])
    /\ (response[h].kind = "ok" /\ HasFirstCandidate(response[h].body)
          /\ Part0Text(FirstCandidate(response[h].body)))
         => ai_response[h] = JStr(OwnAnswer(ev[h]))

C10_Witness ==
  \E g, h \in Handlers :
    /\ g # h /\ ev[g].kind = "text" /\ ev[h].kind = "text"
    /\ pc[g] = "done" /\ pc[h] = "done"
    /\ ev[g].chat # ev[h].chat /\ ev[g].text # ev[h].text
    /\ Len(sends[g]) = 1 /\ sends[g][1].ok /\ sends[g][1].text = JStr(OwnAnswer(ev[g]))
    /\ Len(sends[h]) = 1 /\ sends[h][1].ok /\ sends[h][1].text = JStr(OwnAnswer(ev[h]))

====
